---- MODULE Spec2Model ----
(***************************************************************************)
(* Model of js/src/index.js, the entry point of the nglview notebook       *)
(* bundle: it assigns the webpack public path from the host document,      *)
(* requires a fixed list of modules, copies their own enumerable keys      *)
(* into module.exports and finally writes the package version.             *)
(*                                                                         *)
(* The host document, the module files behind the require() calls and the  *)
(* enumerable keys found on Array.prototype are the inputs; they are        *)
(* chosen in Init and never change.  Every statement of the file is one    *)
(* action; a for-in loop is one action per visited key plus one for the    *)
(* loop's exit.                                                            *)
(***************************************************************************)
EXTENDS Integers, Sequences, FiniteSets

VARIABLES
    document,       \* input: the host document
    mods,           \* input: the module files behind the require() calls, in list order
    arrayProto,     \* input: enumerable keys a polyfill left on Array.prototype
    pc,             \* position of the top-level code
    publicPath,     \* __webpack_public_path__
    exports,        \* module.exports
    arrayLit,       \* the array literal of line 14 while its elements are evaluated
    loadedModules,  \* var loadedModules
    i,              \* position of the outer for-in loop
    loadedModule,   \* var loadedModule
    j,              \* position of the inner for-in loop
    log             \* history: the side effects performed so far, in order

vars == <<document, mods, arrayProto, pc, publicPath, exports, arrayLit,
          loadedModules, i, loadedModule, j, log>>

(***************************************************************************)
(* Bounds and input domains.                                               *)
(***************************************************************************)
MaxMods == 2

BaseUrls == {"/", "/user/x/"}
Vals == {"v1", "v2"}

(***************************************************************************)
(* JavaScript values.                                                      *)
(***************************************************************************)
Null == [t |-> "null"]
Undefined == [t |-> "undefined"]
Str(s) == [t |-> "string", s |-> s]

\* ToString of the abstract operation behind the + operator
ToString(v) ==
    IF v.t = "string" THEN v.s
    ELSE IF v.t = "null" THEN "null"
    ELSE "undefined"

\* mutant of Plus: the operands in the wrong order
PlusSwapped(a, b) == Str(ToString(b) \o ToString(a))

\* a + b where b is a string: string concatenation of ToString(a) and b
Plus(a, b) == Str(ToString(a) \o ToString(b))

(***************************************************************************)
(* The host document.                                                      *)
(***************************************************************************)
Element(attrs) == [t |-> "element", attrs |-> attrs]

Elements ==
    { Element(f) : f \in UNION { [S -> BaseUrls] : S \in SUBSET {"data-base-url"} } }

Documents == { [body |-> b] : b \in {Null} \cup Elements }

\* document.querySelector('body'): the element, or null when there is none
QuerySelector(doc, sel) == IF sel = "body" THEN doc.body ELSE Null

\* mutant of GetAttribute: undefined, not null, for an absent attribute
GetAttributeUndefined(el, name) ==
    IF name \in DOMAIN el.attrs THEN Str(el.attrs[name]) ELSE Undefined

\* element.getAttribute(name): the value, or null when the attribute is absent
GetAttribute(el, name) ==
    IF name \in DOMAIN el.attrs THEN Str(el.attrs[name]) ELSE Null

(***************************************************************************)
(* Objects exported by the required modules.  own: the own enumerable      *)
(* properties in insertion order; hidden: the names of the own             *)
(* non-enumerable properties; proto: the enumerable properties of the      *)
(* prototype chain.                                                        *)
(***************************************************************************)
P(n, v) == [name |-> n, val |-> v]
O(own, hidden, proto) == [own |-> own, hidden |-> hidden, proto |-> proto]

Names(props) == { props[x].name : x \in DOMAIN props }
Lookup(props, k) == props[CHOOSE x \in DOMAIN props : props[x].name = k].val

Objects ==
    { O(<<>>, {}, <<>>) }
    \cup { O(<<P(k, v)>>, {}, <<>>) : k \in {"a", "b", "version"}, v \in Vals }
    \cup { O(<<P("a", "v2"), P("b", "v1")>>, {}, <<>>),
           O(<<P("b", "v1"), P("version", "v2")>>, {}, <<>>),
           O(<<P("a", "v1")>>, {}, <<P("a", "v2"), P("b", "v2")>>),
           O(<<>>, {}, <<P("version", "v1")>>),
           O(<<P("b", "v2")>>, {"a"}, <<>>),
           O(<<>>, {"version"}, <<P("version", "v2")>>) }

\* a module file: ok is FALSE when requiring it throws
Files ==
    { [ok |-> TRUE, exports |-> o] : o \in Objects }
    \cup { [ok |-> FALSE, exports |-> O(<<>>, {}, <<>>)] }

ModLists == UNION { [1..n -> Files] : n \in 0..MaxMods }

\* mutant of HasOwnProperty: the guard lets every visited key through
HasOwnPropertyAlways(obj, k) == TRUE

\* obj.hasOwnProperty(k)
HasOwnProperty(obj, k) == k \in Names(obj.own) \cup obj.hidden

\* obj[k]: own property first, then the prototype chain
Get(obj, k) ==
    IF k \in Names(obj.own) THEN Lookup(obj.own, k)
    ELSE IF k \in obj.hidden THEN "hidden"
    ELSE IF k \in Names(obj.proto) THEN Lookup(obj.proto, k)
    ELSE "undefined"

\* mutant of ForInKeys: the enumeration misses the first key
ForInKeysSkipFirst(obj) ==
    LET keys == [x \in DOMAIN obj.own |-> obj.own[x].name]
                \o SelectSeq([x \in DOMAIN obj.proto |-> obj.proto[x].name],
                             LAMBDA k : k \notin Names(obj.own) \cup obj.hidden)
    IN  IF keys = <<>> THEN keys ELSE Tail(keys)

\* the keys `for (k in obj)` visits: own enumerable keys, then the enumerable
\* keys of the prototype chain that no own property shadows
ForInKeys(obj) ==
    [x \in DOMAIN obj.own |-> obj.own[x].name]
    \o SelectSeq([x \in DOMAIN obj.proto |-> obj.proto[x].name],
                 LAMBDA k : k \notin Names(obj.own) \cup obj.hidden)

\* the keys `for (i in arr)` visits: the indices, then the inherited keys;
\* an inherited key is the position after the last index it has in protoKeys
ArrayForInKeys(arr, protoKeys) == [x \in 1..(Len(arr) + Len(protoKeys)) |-> x]

\* arr.hasOwnProperty(i)
ArrayHasOwnProperty(arr, x) == x \in 1..Len(arr)

\* mutant of Put: an existing key keeps its value
PutIfAbsent(obj, k, v) ==
    [x \in DOMAIN obj \cup {k} |-> IF x \in DOMAIN obj THEN obj[x] ELSE v]

\* obj[k] = v
Put(obj, k, v) == [x \in DOMAIN obj \cup {k} |-> IF x = k THEN v ELSE obj[x]]

EmptyObject == [x \in {} |-> "undefined"]

\* require('../package.json').version
PkgVersion == "X.Y.Z"

Suffix == "nbextensions/nglview/"

(***************************************************************************)
(* Initial state: the module is about to run; module.exports is the empty  *)
(* object the module system supplies.                                      *)
(***************************************************************************)
Init ==
    /\ document \in Documents
    /\ mods \in ModLists
    /\ arrayProto \in {<<>>, <<"polyfill">>}
    /\ pc = "path"
    /\ publicPath = Undefined
    /\ exports = EmptyObject
    /\ arrayLit = <<>>
    /\ loadedModules = <<>>
    /\ i = 0
    /\ loadedModule = O(<<>>, {}, <<>>)
    /\ j = 0
    /\ log = <<>>

\* mutant of SetPublicPath: an absent attribute throws
SetPublicPathStrict ==
    /\ pc = "path"
    /\ LET el == QuerySelector(document, "body") IN
         IF el = Null \/ GetAttribute(el, "data-base-url") = Null
         THEN /\ pc' = "error"
              /\ UNCHANGED <<publicPath, log>>
         ELSE /\ publicPath' = Plus(GetAttribute(el, "data-base-url"), Str(Suffix))
              /\ log' = Append(log, "path")
              /\ pc' = "exports"
    /\ UNCHANGED <<document, mods, arrayProto, exports, arrayLit, loadedModules,
                   i, loadedModule, j>>

\* mutant of SetPublicPath: an absent body is tolerated and the code goes on
SetPublicPathLenient ==
    /\ pc = "path"
    /\ LET el == QuerySelector(document, "body") IN
         IF el = Null
         THEN /\ publicPath' = Plus(Undefined, Str(Suffix))
              /\ log' = Append(log, "path")
              /\ pc' = "exports"
         ELSE /\ publicPath' = Plus(GetAttribute(el, "data-base-url"), Str(Suffix))
              /\ log' = Append(log, "path")
              /\ pc' = "exports"
    /\ UNCHANGED <<document, mods, arrayProto, exports, arrayLit, loadedModules,
                   i, loadedModule, j>>

\* line 8: __webpack_public_path__ = document.querySelector('body')
\*             .getAttribute('data-base-url') + 'nbextensions/nglview/'
SetPublicPath ==
    /\ pc = "path"
    /\ LET el == QuerySelector(document, "body") IN
         IF el = Null
         THEN \* TypeError: null has no getAttribute
              /\ pc' = "error"
              /\ UNCHANGED <<publicPath, log>>
         ELSE /\ publicPath' = Plus(GetAttribute(el, "data-base-url"), Str(Suffix))
              /\ log' = Append(log, "path")
              /\ pc' = "exports"
    /\ UNCHANGED <<document, mods, arrayProto, exports, arrayLit, loadedModules,
                   i, loadedModule, j>>

\* line 12: module.exports = {}
ResetExports ==
    /\ pc = "exports"
    /\ exports' = EmptyObject
    /\ pc' = "require"
    /\ UNCHANGED <<document, mods, arrayProto, publicPath, arrayLit, loadedModules,
                   i, loadedModule, j, log>>

\* mutant of Require: a module that fails to load is left out of the list
RequireSkipFailed ==
    /\ pc = "require"
    /\ Len(arrayLit) < Len(mods)
    /\ LET file == mods[Len(arrayLit) + 1] IN
         /\ arrayLit' = Append(arrayLit, file.exports)
         /\ log' = IF file.ok THEN Append(log, "load") ELSE log
         /\ pc' = pc
    /\ UNCHANGED <<document, mods, arrayProto, publicPath, exports, loadedModules,
                   i, loadedModule, j>>

\* lines 15-28: the next require() of the array literal
Require ==
    /\ pc = "require"
    /\ Len(arrayLit) < Len(mods)
    /\ LET file == mods[Len(arrayLit) + 1] IN
         IF file.ok
         THEN /\ arrayLit' = Append(arrayLit, file.exports)
              /\ log' = Append(log, "load")
              /\ pc' = pc
         ELSE \* the load error propagates out of the module
              /\ pc' = "error"
              /\ UNCHANGED <<arrayLit, log>>
    /\ UNCHANGED <<document, mods, arrayProto, publicPath, exports, loadedModules,
                   i, loadedModule, j>>

\* lines 14, 29, 31: var loadedModules = [...]; the outer loop starts
AssignLoadedModules ==
    /\ pc = "require"
    /\ Len(arrayLit) = Len(mods)
    /\ loadedModules' = arrayLit
    /\ i' = 1
    /\ pc' = "outer"
    /\ UNCHANGED <<document, mods, arrayProto, publicPath, exports, arrayLit,
                   loadedModule, j, log>>

\* mutant of OuterStep: a key the guard rejects is visited again and again
OuterStepStuck ==
    /\ pc = "outer"
    /\ i <= Len(ArrayForInKeys(loadedModules, arrayProto))
    /\ IF ArrayHasOwnProperty(loadedModules, ArrayForInKeys(loadedModules, arrayProto)[i])
       THEN /\ loadedModule' = loadedModules[ArrayForInKeys(loadedModules, arrayProto)[i]]
            /\ j' = 1
            /\ pc' = "inner"
            /\ i' = i
       ELSE UNCHANGED <<i, loadedModule, j, pc>>
    /\ UNCHANGED <<document, mods, arrayProto, publicPath, exports, arrayLit,
                   loadedModules, log>>

\* lines 31-34: one key of `for (var i in loadedModules)`
OuterStep ==
    /\ pc = "outer"
    /\ i <= Len(ArrayForInKeys(loadedModules, arrayProto))
    /\ IF ArrayHasOwnProperty(loadedModules, ArrayForInKeys(loadedModules, arrayProto)[i])
       THEN /\ loadedModule' = loadedModules[ArrayForInKeys(loadedModules, arrayProto)[i]]
            /\ j' = 1
            /\ pc' = "inner"
            /\ i' = i
       ELSE /\ i' = i + 1
            /\ UNCHANGED <<loadedModule, j, pc>>
    /\ UNCHANGED <<document, mods, arrayProto, publicPath, exports, arrayLit,
                   loadedModules, log>>

\* line 40: the outer loop has visited every key
OuterExit ==
    /\ pc = "outer"
    /\ i > Len(ArrayForInKeys(loadedModules, arrayProto))
    /\ pc' = "version"
    /\ UNCHANGED <<document, mods, arrayProto, publicPath, exports, arrayLit,
                   loadedModules, i, loadedModule, j, log>>

\* lines 34-37: one key of `for (var target_name in loadedModule)`
InnerStep ==
    /\ pc = "inner"
    /\ j <= Len(ForInKeys(loadedModule))
    /\ LET target_name == ForInKeys(loadedModule)[j] IN
         IF HasOwnProperty(loadedModule, target_name)
         THEN /\ exports' = Put(exports, target_name, Get(loadedModule, target_name))
              /\ log' = Append(log, "copy")
         ELSE UNCHANGED <<exports, log>>
    /\ j' = j + 1
    /\ UNCHANGED <<document, mods, arrayProto, pc, publicPath, arrayLit,
                   loadedModules, i, loadedModule>>

\* lines 38-39: the inner loop has visited every key
InnerExit ==
    /\ pc = "inner"
    /\ j > Len(ForInKeys(loadedModule))
    /\ i' = i + 1
    /\ pc' = "outer"
    /\ UNCHANGED <<document, mods, arrayProto, publicPath, exports, arrayLit,
                   loadedModules, loadedModule, j, log>>

\* mutant of WriteVersion: a version key a module exported is kept
WriteVersionIfAbsent ==
    /\ pc = "version"
    /\ exports' = IF "version" \in DOMAIN exports THEN exports
                  ELSE Put(exports, "version", PkgVersion)
    /\ log' = Append(log, "version")
    /\ pc' = "done"
    /\ UNCHANGED <<document, mods, arrayProto, publicPath, arrayLit, loadedModules,
                   i, loadedModule, j>>

\* line 42: module.exports['version'] = require('../package.json').version
WriteVersion ==
    /\ pc = "version"
    /\ exports' = Put(exports, "version", PkgVersion)
    /\ log' = Append(log, "version")
    /\ pc' = "done"
    /\ UNCHANGED <<document, mods, arrayProto, publicPath, arrayLit, loadedModules,
                   i, loadedModule, j>>

Next ==
    \/ SetPublicPath
    \/ ResetExports
    \/ Require
    \/ AssignLoadedModules
    \/ OuterStep
    \/ OuterExit
    \/ InnerStep
    \/ InnerExit
    \/ WriteVersion

Spec == Init /\ [][Next]_vars

\* the top-level code is synchronous and runs to completion
FairSpec == Spec /\ WF_vars(Next)

(***************************************************************************)
(* Vocabulary of the properties.                                           *)
(***************************************************************************)
\* the symbols a module exports: the own enumerable keys of its exports object
Symbols(p) == Names(mods[p].exports.own)
ValueIn(p, k) == Lookup(mods[p].exports.own, k)
Exporters(k) == { p \in DOMAIN mods : k \in Symbols(p) }
Latest(S) == CHOOSE p \in S : \A q \in S : q <= p

BodyPresent == document.body # Null
AttrPresent == BodyPresent /\ "data-base-url" \in DOMAIN document.body.attrs
AttrMissing == BodyPresent /\ "data-base-url" \notin DOMAIN document.body.attrs
AllLoadable == \A p \in DOMAIN mods : mods[p].ok
SomeLoadFails == \E p \in DOMAIN mods : ~mods[p].ok
Completed == pc = "done"
Aborted == pc = "error"
PathAssigned == pc \notin {"path", "error"} \/ (pc = "error" /\ BodyPresent)
Count(ev) == Cardinality({ x \in DOMAIN log : log[x] = ev })

PairwiseDisjoint ==
    \A p, q \in DOMAIN mods : p # q => Symbols(p) \cap Symbols(q) = {}
NoneExportsVersion == \A p \in DOMAIN mods : "version" \notin Symbols(p)

(***************************************************************************)
(* C1: when the modules' exported symbol sets are pairwise disjoint and    *)
(* none exports "version", the completed namespace holds every symbol of   *)
(* every module with the value it has in its module.                       *)
(***************************************************************************)
C1_DisjointUnionPreserved ==
    (Completed /\ PairwiseDisjoint /\ NoneExportsVersion) =>
        \A p \in DOMAIN mods : \A k \in Symbols(p) :
            k \in DOMAIN exports /\ exports[k] = ValueIn(p, k)

C1_Witness ==
    /\ Completed /\ PairwiseDisjoint /\ NoneExportsVersion
    /\ Len(mods) = 2
    /\ Symbols(1) = {"a"} /\ Symbols(2) = {"b"}
    /\ DOMAIN exports = {"a", "b", "version"}

(***************************************************************************)
(* C2: a symbol other than "version" that two or more modules export has,  *)
(* in the completed namespace, the value of the latest module exporting    *)
(* it; a collision never leads to the error state, and initialization      *)
(* completes.                                                              *)
(***************************************************************************)
Collision == \E k \in {"a", "b"} : Cardinality(Exporters(k)) >= 2

C2_LastWriterWins ==
    /\ [](Completed =>
            \A k \in {"a", "b"} : Cardinality(Exporters(k)) >= 2 =>
                k \in DOMAIN exports /\ exports[k] = ValueIn(Latest(Exporters(k)), k))
    /\ []((Collision /\ BodyPresent /\ AllLoadable) => ~Aborted)
    /\ ((Collision /\ BodyPresent /\ AllLoadable) ~> Completed)

C2_Witness ==
    /\ Completed
    /\ Len(mods) = 2
    /\ "a" \in Symbols(1) /\ "a" \in Symbols(2)
    /\ ValueIn(1, "a") = "v1" /\ ValueIn(2, "a") = "v2"
    /\ exports["a"] = "v2"

(***************************************************************************)
(* C3: the completed namespace maps "version" to the package version,      *)
(* whatever the modules export under that key.                             *)
(***************************************************************************)
C3_VersionIsPackageVersion ==
    Completed => ("version" \in DOMAIN exports /\ exports["version"] = PkgVersion)

C3_Witness ==
    /\ Completed
    /\ \E p \in DOMAIN mods : "version" \in Symbols(p) /\ ValueIn(p, "version") # PkgVersion
    /\ exports["version"] = PkgVersion

(***************************************************************************)
(* C4 (as stated): with the body present and the attribute absent, the     *)
(* assigned base path is a fallback and not the concatenation of a         *)
(* stringified missing value with the suffix.                              *)
(***************************************************************************)
C4_DefinedFallback ==
    (AttrMissing /\ Count("path") > 0) =>
        publicPath \notin { Str("nullnbextensions/nglview/"),
                            Str("undefinednbextensions/nglview/") }

(***************************************************************************)
(* C4 (amended): with the body present and the attribute absent, the       *)
(* assigned base path is the string "null" followed by the suffix.         *)
(***************************************************************************)
C4_NullConcatenation ==
    (AttrMissing /\ Count("path") > 0) => publicPath = Str("nullnbextensions/nglview/")

C4_Witness ==
    /\ AttrMissing
    /\ Completed
    /\ publicPath = Str("nullnbextensions/nglview/")

(***************************************************************************)
(* C5: with the attribute present with value B, the assigned base path is  *)
(* B followed by "nbextensions/nglview/", and no later step changes it.    *)
(***************************************************************************)
C5_BasePathIsBasePlusSuffix ==
    /\ []((AttrPresent /\ Count("path") > 0) =>
            publicPath = Str(document.body.attrs["data-base-url"] \o "nbextensions/nglview/"))
    /\ [][Count("path") > 0 => publicPath' = publicPath]_vars

C5_Witness ==
    /\ AttrPresent
    /\ document.body.attrs["data-base-url"] = "/user/x/"
    /\ Completed
    /\ publicPath = Str("/user/x/nbextensions/nglview/")

(***************************************************************************)
(* C6 (as stated): the key set of the completed namespace is the union of  *)
(* all own keys of the modules, enumerable or not, plus "version".         *)
(***************************************************************************)
OwnKeys(p) == Names(mods[p].exports.own) \cup mods[p].exports.hidden

C6_AllOwnKeys ==
    Completed => DOMAIN exports = UNION { OwnKeys(p) : p \in DOMAIN mods } \cup {"version"}

(***************************************************************************)
(* C6 (amended): the key set of the completed namespace is the union of    *)
(* the own enumerable keys of the modules plus "version"; no other key is  *)
(* in the namespace in any state.                                          *)
(***************************************************************************)
C6_OwnEnumerableKeys ==
    /\ DOMAIN exports \subseteq UNION { Symbols(p) : p \in DOMAIN mods } \cup {"version"}
    /\ Completed =>
         DOMAIN exports = UNION { Symbols(p) : p \in DOMAIN mods } \cup {"version"}

C6_Witness ==
    /\ Completed
    /\ \E p \in DOMAIN mods :
         /\ Symbols(p) = {"a"}
         /\ "b" \in Names(mods[p].exports.proto)
    /\ \E p \in DOMAIN mods : mods[p].exports.hidden # {}
    /\ DOMAIN exports = {"a", "version"}

(***************************************************************************)
(* C7: when a module of the list fails to load, no key is ever copied and  *)
(* the version is never written, the namespace stays empty, and the code   *)
(* ends in the error state.                                                *)
(***************************************************************************)
C7_LoadFailureAborts ==
    /\ [](SomeLoadFails =>
            /\ Count("copy") = 0
            /\ Count("version") = 0
            /\ exports = EmptyObject
            /\ pc \in {"path", "exports", "require", "error"})
    /\ (SomeLoadFails ~> Aborted)

C7_Witness ==
    /\ Aborted
    /\ BodyPresent
    /\ Len(mods) = 2
    /\ mods[1].ok /\ Symbols(1) # {}
    /\ ~mods[2].ok
    /\ Len(arrayLit) = 1
    /\ exports = EmptyObject

(***************************************************************************)
(* C8: with the body present and the attribute absent, the base path is    *)
(* assigned a value that is no base URL followed by the suffix, the error  *)
(* state is entered only through a failing module, and the code completes  *)
(* with the namespace the modules alone determine.                         *)
(***************************************************************************)
FinalNamespace ==
    [k \in UNION { Symbols(p) : p \in DOMAIN mods } \cup {"version"} |->
        IF k = "version" THEN PkgVersion ELSE ValueIn(Latest(Exporters(k)), k)]

C8_MissingAttributeIsSilent ==
    /\ []((AttrMissing /\ Count("path") > 0) =>
            publicPath \notin { Str(B \o "nbextensions/nglview/") : B \in BaseUrls })
    /\ []((AttrMissing /\ AllLoadable) => ~Aborted)
    /\ []((BodyPresent /\ Completed) => exports = FinalNamespace)
    /\ ((AttrMissing /\ AllLoadable) ~> (Completed /\ exports = FinalNamespace))

C8_Witness ==
    /\ AttrMissing
    /\ Completed
    /\ Len(mods) = 2
    /\ exports = FinalNamespace
    /\ DOMAIN exports = {"a", "b", "version"}

(***************************************************************************)
(* C9: the code always ends, completed or aborted; a completed run has     *)
(* copied every exported key of every module once and written the version  *)
(* once; no step changes the completed namespace.                          *)
(***************************************************************************)
RECURSIVE SumOwn(_)
SumOwn(n) == IF n = 0 THEN 0 ELSE Len(mods[n].exports.own) + SumOwn(n - 1)

C9_SinglePassTerminates ==
    /\ <>(Completed \/ Aborted)
    /\ ((BodyPresent /\ AllLoadable) ~> Completed)
    /\ [](Completed => (Count("copy") = SumOwn(Len(mods)) /\ Count("version") = 1))
    /\ [][Completed => exports' = exports]_vars

C9_Witness ==
    /\ Completed
    /\ Len(mods) = 2
    /\ arrayProto # <<>>
    /\ Count("copy") = 3

(***************************************************************************)
(* C10: the base path is assigned before any module is loaded, every       *)
(* module is loaded before the first key is copied, and the version is     *)
(* written after the last key is copied; with no body element the code     *)
(* aborts with no module loaded and nothing merged.                        *)
(***************************************************************************)
Before(e1, e2) ==
    \A x, y \in DOMAIN log : (log[x] = e1 /\ log[y] = e2) => x < y

C10_FixedOrder ==
    /\ Before("path", "load") /\ Before("load", "copy") /\ Before("copy", "version")
    /\ Count("load") = Len(arrayLit)
    /\ Count("load") > 0 => (Count("path") = 1 /\ publicPath # Undefined)
    /\ (Count("copy") > 0 \/ exports # EmptyObject) => Count("load") = Len(mods)
    /\ Count("version") > 0 => Count("copy") = SumOwn(Len(mods))
    /\ ~BodyPresent =>
         /\ log = <<>>
         /\ arrayLit = <<>>
         /\ exports = EmptyObject
         /\ pc \in {"path", "error"}

C10_Witness ==
    /\ Completed
    /\ Len(mods) = 2
    /\ log = <<"path", "load", "load", "copy", "copy", "copy", "version">>

====
